---- MODULE Spec2Model ----
(***************************************************************************)
(* Quota & subscription ledger of prompt-gpt-backend (src/limitService.js) *)
(* over a Firestore-like document store.                                   *)
(*                                                                         *)
(* A document is a record whose DOMAIN is the set of fields it carries,    *)
(* so "field missing" (JS undefined) is "field not in DOMAIN".  The        *)
(* collections are functions from the ids of the existing documents.      *)
(* Time is a counter of ticks; TicksPerDay ticks make one UTC day.  The    *)
(* server is taken to run in UTC without DST, so Date.setDate(getDate()+n) *)
(* adds n whole days.                                                      *)
(***************************************************************************)
EXTENDS Integers, Sequences, FiniteSets, TLC

\* ---------------------------------------------------------------- bounds
MaxNow == 3
MaxCount == 6
MaxExpiry == 6

\* ------------------------------------------------------------- constants
DAILY_LIMIT == 5
UNLIMITED == 9999
TicksPerDay == 2

\* requests: 1 is served alone, 2 and 3 are served concurrently, 4 and 5 are
\* two purchases of an upgrade served concurrently
Procs == {1, 2, 3, 4, 5}
SeqProcs == {1}
ConcProcs == {2, 3}
UpProcs == {4, 5}
Devices == {"d1"}
DeviceIds == Devices \cup {""}
Durations == {1, 2}

OwnerEmails == {"a@x.com"}
OwnerPhones == {<<1, 2>>}
\* requester identities <<userEmail, userPhone>>; "" and <<>> are the falsy
\* values of an argument that was not supplied
Requesters ==
    { <<"", <<>>>>, <<"A@X.com", <<>>>>, <<"b@y.com", <<3>>>>, <<"", <<9, 1, 2>>>> }
Anonymous == { <<"", <<>>>> }
\* payment metadata handed to upgradeUser
PaymentDetails == { [orderId |-> "o1", email |-> "a@x.com"] }

\* ------------------------------------------------------- JS object helpers
EmptyObj == [f \in {} |-> 0]

Has(o, f) == f \in DOMAIN o

\* { ...a, ...b } and Firestore set(b, {merge: true}) on a document a
Spread(a, b) ==
    [f \in (DOMAIN a) \cup (DOMAIN b) |-> IF f \in DOMAIN b THEN b[f] ELSE a[f]]

\* delete o[f]
Delete(o, f) == [g \in (DOMAIN o) \ {f} |-> o[g]]

\* String.prototype.toLowerCase on the addresses of the model
toLowerCase(s) ==
    CASE s = "A@X.com" -> "a@x.com"
      [] OTHER -> s

\* String.prototype.includes on digit strings: sub occurs in s
includes(s, sub) ==
    \E i \in 0..(Len(s) - Len(sub)) : SubSeq(s, i + 1, i + Len(sub)) = sub

\* Date.prototype.toISOString / new Date(isoString): the stored form of an
\* instant is a string, kept apart from the instant it denotes
toISOString(t) == [iso |-> t]
NewDate(s) == s.iso

\* limitService.js getTodayStr: the UTC calendar day of an instant
getTodayStr(t) == t \div TicksPerDay

\* Date.setDate(getDate() + days)
AddDays(t, days) == t + days * TicksPerDay

\* ------------------------------------------------ getLimitStatus, pure parts
\* mutant: the day test also fires on the current day
NeedsReset_SameDay(userData, today) ==
    ~Has(userData, "date") \/ userData.date <= today

\* line 53: the record is missing or carries another day
NeedsReset(userData, today) ==
    ~Has(userData, "date") \/ userData.date # today

\* mutant: a fresh day starts one short
ResetUserData_OffByOne(userData, today) ==
    LET u == Spread([date |-> today, count |-> DAILY_LIMIT - 1], userData)
    IN  IF Has(u, "subscriptionExpiry") THEN Delete(u, "count") ELSE u

\* lines 54-59: the in-memory userData after the reset branch
ResetUserData(userData, today) ==
    LET u == Spread([date |-> today, count |-> DAILY_LIMIT], userData)
    IN  IF Has(u, "subscriptionExpiry") THEN Delete(u, "count") ELSE u

\* mutant: the reset replaces the document instead of merging into it
ResetStore_NoMerge(doc, today) ==
    [date |-> today, count |-> DAILY_LIMIT]

\* line 62: the reset written to the store, merged into the stored document
ResetStore(doc, today) ==
    Spread(doc, [date |-> today, count |-> DAILY_LIMIT])

\* lines 103-105 and 119-121: { allowed: count > 0, remaining: count }
\* (undefined > 0 is false; a remaining that is undefined is a missing field)
Metered(userData) ==
    IF Has(userData, "count")
    THEN [allowed |-> userData.count > 0, remaining |-> userData.count,
          isPremium |-> FALSE]
    ELSE [allowed |-> FALSE, isPremium |-> FALSE]

\* mutant: the email comparison is case sensitive
isMatch_CaseSensitive(userData, userEmail, userPhone) ==
    \/ /\ Has(userData, "email")
       /\ userEmail # ""
       /\ userData.email = userEmail
    \/ /\ Has(userData, "phone")
       /\ userPhone # <<>>
       /\ \/ userData.phone = userPhone
          \/ includes(userPhone, userData.phone)
          \/ includes(userData.phone, userPhone)

\* lines 77-91
hasOwnerInfo(userData) == Has(userData, "email") \/ Has(userData, "phone")

isMatch(userData, userEmail, userPhone) ==
    \/ /\ Has(userData, "email")
       /\ userEmail # ""
       /\ toLowerCase(userData.email) = toLowerCase(userEmail)
    \/ /\ Has(userData, "phone")
       /\ userPhone # <<>>
       /\ \/ userData.phone = userPhone
          \/ includes(userPhone, userData.phone)
          \/ includes(userData.phone, userPhone)

\* lines 66-70: the subscription is set and strictly in the future
ActiveSubscription(data, t) ==
    Has(data, "subscriptionExpiry") /\ NewDate(data.subscriptionExpiry) > t

\* lines 66-122: the result computed from userData at instant t
Evaluate(userData, userEmail, userPhone, t) ==
    IF ActiveSubscription(userData, t)
    THEN IF hasOwnerInfo(userData) /\ ~isMatch(userData, userEmail, userPhone)
         THEN Metered(userData)
         ELSE [allowed |-> TRUE, remaining |-> UNLIMITED, isPremium |-> TRUE,
               expiryDate |-> userData.subscriptionExpiry]
    ELSE Metered(userData)

\* mutant: a missing device id is let through
NoDeviceResult_Open == [allowed |-> TRUE, remaining |-> 0, error |-> "No Device ID"]

\* mutant: a failing store is answered by letting the request through
DatabaseErrorResult_Open ==
    [allowed |-> TRUE, remaining |-> UNLIMITED, error |-> "Database Error"]

\* line 43 and lines 123-127
NoDeviceResult == [allowed |-> FALSE, remaining |-> 0, error |-> "No Device ID"]
DatabaseErrorResult == [allowed |-> FALSE, remaining |-> 0, error |-> "Database Error"]

\* ---------------------------------------- decrementLimit / incrementLimit
\* mutant: the decrement is not guarded by count > 0
DecrementDoc_NoGuard(data, t) ==
    IF ActiveSubscription(data, t) THEN data
    ELSE IF Has(data, "count")
         THEN Spread(data, [count |-> data.count - 1])
         ELSE data

\* mutant: the decrement does not look at the subscription
DecrementDoc_IgnorePremium(data, t) ==
    IF Has(data, "count") /\ data.count > 0
    THEN Spread(data, [count |-> data.count - 1])
    ELSE data

\* mutant: the decrement is applied to the count of the day's reset, not to
\* the count the transaction read
DecrementDoc_StaleRead(data, t) ==
    IF ActiveSubscription(data, t) THEN data
    ELSE IF Has(data, "count") /\ data.count > 0
         THEN Spread(data, [count |-> DAILY_LIMIT - 1])
         ELSE data

\* lines 137-146: the document after the transaction body ran on data at t
DecrementDoc(data, t) ==
    IF ActiveSubscription(data, t) THEN data
    ELSE IF Has(data, "count") /\ data.count > 0
         THEN Spread(data, [count |-> data.count - 1])
         ELSE data

\* mutant: the credit stops at DAILY_LIMIT
IncrementDoc_Capped(data) ==
    LET n == IF Has(data, "count") THEN data.count ELSE 0
    IN  Spread(data, [count |-> IF n < DAILY_LIMIT THEN n + 1 ELSE n])

\* line 158: update({count: FieldValue.increment(1)}); a missing numeric
\* field counts from 0
IncrementDoc(data) ==
    Spread(data, [count |-> (IF Has(data, "count") THEN data.count ELSE 0) + 1])

\* ------------------------------------------------------------- upgradeUser
\* mutant: the extension always starts from now
NewExpiry_FromNow(exists, data, t, days) == AddDays(t, days)

\* lines 171-183: the new expiry instant
NewExpiry(exists, data, t, days) ==
    LET currentExpiry ==
            IF exists /\ Has(data, "subscriptionExpiry")
                      /\ NewDate(data.subscriptionExpiry) > t
            THEN NewDate(data.subscriptionExpiry)
            ELSE t
    IN  AddDays(currentExpiry, days)

\* lines 186-189: the fields merged into the users document
UpgradeFields(currentExpiry) ==
    [subscriptionExpiry |-> toISOString(currentExpiry), isPremium |-> TRUE]

\* paymentDetails.x || null
OrNull(o, f) == IF Has(o, f) THEN o[f] ELSE "null"

\* lines 193-204: the fields merged into the premium_users document (of the
\* audit fields, which nothing reads back, only the owner identity is kept)
PremiumFields(deviceId, currentExpiry, paymentDetails) ==
    [deviceId |-> deviceId,
     subscriptionExpiry |-> toISOString(currentExpiry),
     isPremium |-> TRUE,
     email |-> OrNull(paymentDetails, "email"),
     phone |-> OrNull(paymentDetails, "phone")]

\* ------------------------------------------- paymentService.verifyPayment
\* An order id is the pair of its prefix and the rest of the string.
OrderIds == { <<"order_", "N1">>, <<"order_mock_", "N1">> }
PaymentIds == {"pay_1"}

\* String.prototype.startsWith on an order id
startsWith(orderId, prefix) == orderId[1] = prefix

\* part_001 lines 37-41: the hex digest of HMAC-SHA256 under the key secret,
\* one digest per text (collisions are left out)
Hmac(text) == [sha256 |-> text]

\* the text signed for a payment: orderId + "|" + paymentId
SignedText(orderId, paymentId) == <<orderId[1], orderId[2], "|", paymentId>>

\* the signatures a client may send: the one of the payment and another one
Signatures(orderId, paymentId) ==
    { Hmac(SignedText(orderId, paymentId)), Hmac(SignedText(orderId, "pay_0")) }

\* part_001 lines 34-47
verifyPayment(orderId, paymentId, signature) ==
    IF startsWith(orderId, "order_mock_") THEN TRUE
    ELSE Hmac(SignedText(orderId, paymentId)) = signature

\* ------------------------------------------------------ POST /api/generate
\* mutant: an exhausted quota does not stop the request
Gate_Open(adRewardToken, limitStatus) ==
    IF adRewardToken THEN "reward" ELSE "proceed"

\* part_001 lines 171-179: what the handler does with the limit status
Gate(adRewardToken, limitStatus) ==
    IF adRewardToken THEN "reward"
    ELSE IF ~limitStatus.allowed THEN "reject"
    ELSE "proceed"

\* part_001 line 161, lines 175-178, 325-330 and 332-341: the answers
MissingFields == [status |-> 400, error |-> "Missing required fields"]
LimitReached == [status |-> 403, error |-> "Daily limit reached", upgrade |-> TRUE]
ProviderError == [status |-> 500, error |-> "Failed to generate prompt. Try again later."]
Generated(updatedStatus) ==
    IF Has(updatedStatus, "remaining")
    THEN [status |-> 200, success |-> TRUE, remaining |-> updatedStatus.remaining]
    ELSE [status |-> 200, success |-> TRUE]

\* ------------------------------------------------------------------- state
VARIABLES
    now,            \* the clock (new Date())
    users,          \* collection 'users': existing device ids -> document
    premium_users,  \* collection 'premium_users'
    pc,             \* per request: where its handler stands
    call,           \* per request: the operation, its arguments and locals
    result,         \* per request: what the finished call returned
    response,       \* per request: what the HTTP handler answered
    debitRun,       \* per device: decrementLimit calls returned in a row today
    tracking,       \* whether debitRun is kept
    handler         \* the HTTP request being served: its body and its stage

vars ==
    <<now, users, premium_users, pc, call, result, response, debitRun, tracking,
      handler>>

\* collection.doc(id).get(): exists / data()
Exists(coll, id) == id \in DOMAIN coll
Data(coll, id) == IF id \in DOMAIN coll THEN coll[id] ELSE EmptyObj

\* the collection after document id was written
Put(coll, id, doc) ==
    [k \in (DOMAIN coll) \cup {id} |-> IF k = id THEN doc ELSE coll[k]]

\* documents present before the service first runs: none, or a profile
\* document carrying the identity of the signed-in owner
InitialDocs ==
    { [email |-> e] : e \in OwnerEmails } \cup
    { [phone |-> ph] : ph \in OwnerPhones } \cup
    { [email |-> e, phone |-> ph] : e \in OwnerEmails, ph \in OwnerPhones }

NoCall == [op |-> "none"]
NoRequest == [op |-> "none", stage |-> "answered"]

Init ==
    /\ now = 0
    /\ \E S \in SUBSET Devices : users \in [S -> InitialDocs]
    /\ premium_users = EmptyObj
    /\ pc = [p \in Procs |-> "idle"]
    /\ call = [p \in Procs |-> NoCall]
    /\ result = [p \in Procs |-> EmptyObj]
    /\ response = [p \in Procs |-> EmptyObj]
    /\ debitRun = [d \in Devices |-> 0]
    /\ tracking = FALSE
    /\ handler = NoRequest

Ready(p) == pc[p] \in {"idle", "done"}

\* Bookkeeping for the properties, not program state: the finished calls of
\* the observed requests are remembered, those of the others are not.
Observed == SeqProcs \cup UpProcs

\* part_001 lines 127-144: what the verify-payment handler answers; on a
\* valid signature it awaits upgradeUser and drops the value it returns
VerifyPaymentResponse(isValid) ==
    IF isValid
    THEN [status |-> 200, success |-> TRUE]
    ELSE [status |-> 400, success |-> FALSE, error |-> "Invalid Signature"]

\* the call, with locals c, returns r at this instant; upgradeUser returns
\* into the verify-payment handler, which then answers
Return(p, c, r) ==
    /\ pc' = [pc EXCEPT ![p] = IF p \in Observed THEN "done" ELSE "idle"]
    /\ call' = [call EXCEPT ![p] = IF p \in Observed
                                   THEN Spread(c, [at |-> now]) ELSE NoCall]
    /\ result' = [result EXCEPT ![p] = IF p \in Observed THEN r ELSE EmptyObj]
    /\ response' = [response EXCEPT ![p] =
                        IF p \in Observed /\ c.op = "upgrade"
                        THEN VerifyPaymentResponse(TRUE) ELSE EmptyObj]

\* what the code itself holds across an await
LocalFields ==
    {"op", "deviceId", "userEmail", "userPhone", "today", "userData",
     "currentExpiry", "paymentDetails"}

Locals(c) == [f \in (DOMAIN c) \cap LocalFields |-> c[f]]

\* the call, with locals c, waits for the store at label
Await(p, c, label) ==
    /\ pc' = [pc EXCEPT ![p] = label]
    /\ call' = [call EXCEPT ![p] = IF p \in Observed THEN c ELSE Locals(c)]
    /\ result' = [result EXCEPT ![p] = EmptyObj]
    /\ response' = [response EXCEPT ![p] = EmptyObj]

BreakRun(deviceId) ==
    debitRun' = [d \in Devices |-> IF d = deviceId THEN 0 ELSE debitRun[d]]

\* ---------------------------------------------------------- getLimitStatus
\* lines 42-63 up to the await of the reset write; without a reset the
\* call runs to its return (lines 66-122)
GetStart(p, deviceId, userEmail, userPhone, fault) ==
    LET exists == Exists(users, deviceId)
        doc == Data(users, deviceId)
        today == getTodayStr(now)
        c == [op |-> "get", deviceId |-> deviceId, userEmail |-> userEmail,
              userPhone |-> userPhone, existed |-> exists, pre |-> doc,
              today |-> today, userData |-> doc, wrote |-> FALSE,
              fault |-> deviceId # "" /\ fault,
              run |-> IF deviceId \in Devices THEN debitRun[deviceId] ELSE 0]
    IN  /\ Ready(p)
        /\ BreakRun(deviceId)
        /\ UNCHANGED <<now, users, premium_users, tracking>>
        /\ IF deviceId = ""
           THEN Return(p, c, NoDeviceResult)
           ELSE IF fault
           THEN Return(p, c, DatabaseErrorResult)
           ELSE IF NeedsReset(doc, today)
           THEN Await(p, [c EXCEPT !.userData = ResetUserData(doc, today)],
                      "get_write")
           ELSE Return(p, c, Evaluate(doc, userEmail, userPhone, now))

\* line 62 and, once the write returned, lines 66-122
GetWrite(p, fault) ==
    LET c == call[p]
    IN  /\ pc[p] = "get_write"
        /\ UNCHANGED <<now, premium_users, debitRun, tracking>>
        /\ IF fault
           THEN /\ Return(p, Spread(c, [fault |-> TRUE]), DatabaseErrorResult)
                /\ UNCHANGED users
           ELSE /\ users' = Put(users, c.deviceId,
                                ResetStore(Data(users, c.deviceId), c.today))
                /\ Return(p, Spread(c, [wrote |-> TRUE]),
                          Evaluate(c.userData, c.userEmail, c.userPhone, now))

\* Bookkeeping for the properties: the call request p last finished was a
\* getLimitStatus of deviceId that withheld an active subscription from the
\* requester and allowed the request on the metered count
WithheldBefore(p, deviceId) ==
    /\ pc[p] = "done" /\ call[p].op = "get" /\ call[p].deviceId = deviceId
    /\ ActiveSubscription(call[p].pre, call[p].at)
    /\ Has(result[p], "isPremium") /\ ~result[p].isPremium
    /\ result[p].allowed

\* ---------------------------------------------------------- decrementLimit
\* lines 130-153; the transaction is one atomic step
Decrement(p, deviceId, fault) ==
    LET exists == Exists(users, deviceId)
        doc == Data(users, deviceId)
        c == [op |-> "decrement", deviceId |-> deviceId, existed |-> exists,
              pre |-> doc, now |-> now, fault |-> fault,
              withheld |-> WithheldBefore(p, deviceId)]
        failed == deviceId = "" \/ fault
    IN  /\ Ready(p)
        /\ Return(p, c, [value |-> ~failed])
        /\ users' = IF failed \/ ~exists THEN users
                    ELSE Put(users, deviceId, DecrementDoc(doc, now))
        /\ debitRun' = [d \in Devices |->
                           IF d # deviceId THEN debitRun[d]
                           ELSE IF failed \/ ~tracking THEN 0
                           ELSE IF debitRun[d] < DAILY_LIMIT THEN debitRun[d] + 1
                           ELSE debitRun[d]]
        /\ UNCHANGED <<now, premium_users, tracking>>

\* ---------------------------------------------------------- incrementLimit
\* lines 155-164; update() rejects when the document does not exist
Increment(p, deviceId, fault) ==
    LET exists == Exists(users, deviceId)
        doc == Data(users, deviceId)
        c == [op |-> "increment", deviceId |-> deviceId, existed |-> exists,
              pre |-> doc, fault |-> fault]
        failed == deviceId = "" \/ fault \/ ~exists
    IN  /\ Ready(p)
        /\ Has(doc, "count") => doc.count < MaxCount
        /\ Return(p, c, [success |-> ~failed])
        /\ users' = IF failed THEN users
                    ELSE Put(users, deviceId, IncrementDoc(doc))
        /\ BreakRun(deviceId)
        /\ UNCHANGED <<now, premium_users, tracking>>

\* ------------------------------------------------------------- upgradeUser
\* lines 166-183 up to the await of the users write
UpStart(p, deviceId, days, paymentDetails, fault) ==
    LET exists == Exists(users, deviceId)
        doc == Data(users, deviceId)
        c == [op |-> "upgrade", deviceId |-> deviceId, days |-> days,
              paymentDetails |-> paymentDetails, existed |-> exists,
              pre |-> doc, now |-> now, fault |-> fault,
              currentExpiry |-> NewExpiry(exists, doc, now, days)]
    IN  /\ Ready(p)
        /\ c.currentExpiry <= MaxExpiry
        /\ BreakRun(deviceId)
        /\ UNCHANGED <<now, users, premium_users, tracking>>
        /\ IF deviceId = "" \/ fault
           THEN Return(p, c, [value |-> FALSE])
           ELSE Await(p, c, "up_users")

\* lines 186-189
UpWriteUsers(p, fault) ==
    LET c == call[p]
    IN  /\ pc[p] = "up_users"
        /\ UNCHANGED <<now, premium_users, debitRun, tracking>>
        /\ IF fault
           THEN /\ Return(p, Spread(c, [fault |-> TRUE]), [value |-> FALSE])
                /\ UNCHANGED users
           ELSE /\ users' = Put(users, c.deviceId,
                                Spread(Data(users, c.deviceId),
                                       UpgradeFields(c.currentExpiry)))
                /\ Await(p, c, "up_premium")

\* lines 192-211
UpWritePremium(p, fault) ==
    LET c == call[p]
    IN  /\ pc[p] = "up_premium"
        /\ UNCHANGED <<now, users, debitRun, tracking>>
        /\ Return(p, Spread(c, [fault |-> fault]), [value |-> ~fault])
        /\ premium_users' =
              IF fault THEN premium_users
              ELSE Put(premium_users, c.deviceId,
                       Spread(Data(premium_users, c.deviceId),
                              PremiumFields(c.deviceId, c.currentExpiry,
                                            c.paymentDetails)))

\* ------------------------------------------------------ POST /api/generate
\* a request is taken once the one before it is answered
Idle(p) == handler.stage = "answered" /\ Ready(p)

Answer(p, r) ==
    /\ response' = [response EXCEPT ![p] = r]
    /\ UNCHANGED <<now, users, premium_users, pc, call, result, debitRun, tracking>>

\* part_001 lines 148-167: the body is read and getLimitStatus is called
GenStart(p, deviceId, email, adRewardToken) ==
    /\ Idle(p)
    /\ IF deviceId = ""
       THEN /\ Answer(p, MissingFields)
            /\ handler' = [op |-> "generate", deviceId |-> deviceId,
                            adRewardToken |-> adRewardToken,
                            stage |-> "answered", provider |-> "none",
                            mutations |-> 0]
       ELSE /\ GetStart(p, deviceId, email, <<>>, FALSE)
            /\ handler' = [op |-> "generate", deviceId |-> deviceId,
                            adRewardToken |-> adRewardToken,
                            stage |-> "status", provider |-> "none",
                            mutations |-> 0]

\* the reset write of the getLimitStatus the handler waits for
GenStatusWrite(p) ==
    /\ handler.op = "generate" /\ handler.stage \in {"status", "final"}
    /\ GetWrite(p, FALSE)
    /\ UNCHANGED handler

\* part_001 lines 171-179; allowed and stored are kept for the properties:
\* the status the handler got and the document stored at that instant
GenGate(p) ==
    LET h == Spread(handler, [allowed |-> result[p].allowed,
                              stored |-> Data(users, handler.deviceId)])
        gate == Gate(handler.adRewardToken, result[p])
    IN  /\ handler.op = "generate" /\ handler.stage = "status"
        /\ pc[p] = "done"
        /\ CASE gate = "reward" ->
                  /\ Increment(p, handler.deviceId, FALSE)
                  /\ handler' = Spread(h, [stage |-> "provider", mutations |-> 1])
             [] gate = "reject" ->
                  /\ Answer(p, LimitReached)
                  /\ handler' = Spread(h, [stage |-> "answered"])
             [] gate = "proceed" ->
                  /\ handler' = Spread(h, [stage |-> "provider"])
                  /\ UNCHANGED <<now, users, premium_users, pc, call, result,
                                 response, debitRun, tracking>>

\* part_001 lines 181-269 and 332-341: the provider answers (ok) or throws
GenProvider(p, ok) ==
    /\ handler.op = "generate" /\ handler.stage = "provider"
    /\ IF ok
       THEN /\ handler' = Spread(handler, [stage |-> "generated", provider |-> "ok"])
            /\ UNCHANGED <<now, users, premium_users, pc, call, result,
                           response, debitRun, tracking>>
       ELSE /\ handler' = Spread(handler, [stage |-> "answered",
                                            provider |-> "failed"])
            /\ Answer(p, ProviderError)

\* part_001 lines 271-274: the ledger update after a successful generation
GenLedger(p) ==
    /\ handler.op = "generate" /\ handler.stage = "generated"
    /\ IF ~handler.adRewardToken
       THEN /\ Increment(p, handler.deviceId, FALSE)
            /\ handler' = Spread(handler, [stage |-> "updated",
                                            mutations |-> handler.mutations + 1])
       ELSE /\ handler' = Spread(handler, [stage |-> "updated"])
            /\ UNCHANGED <<now, users, premium_users, pc, call, result,
                           response, debitRun, tracking>>

\* part_001 line 325: getLimitStatus(deviceId) for the remaining to report
GenFinalStart(p) ==
    /\ handler.op = "generate" /\ handler.stage = "updated"
    /\ GetStart(p, handler.deviceId, "", <<>>, FALSE)
    /\ handler' = Spread(handler, [stage |-> "final"])

\* part_001 lines 326-330
GenAnswer(p) ==
    /\ handler.op = "generate" /\ handler.stage = "final"
    /\ pc[p] = "done"
    /\ Answer(p, Generated(result[p]))
    /\ handler' = Spread(handler, [stage |-> "answered"])

\* ------------------------------------------------ POST /api/verify-payment
\* part_001 lines 123-141 up to the first await of upgradeUser, or the
\* answer at line 143
VerifyStart(p, orderId, paymentId, signature, deviceId, duration, email) ==
    LET isValid == verifyPayment(orderId, paymentId, signature)
        paymentDetails == [orderId |-> orderId, paymentId |-> paymentId,
                           email |-> email]
        h == [op |-> "verify", deviceId |-> deviceId, orderId |-> orderId,
              paymentId |-> paymentId, signature |-> signature,
              isValid |-> isValid]
    IN  /\ Idle(p)
        /\ IF isValid
           THEN /\ UpStart(p, deviceId, duration, paymentDetails, FALSE)
                /\ handler' = Spread(h, [stage |-> "upgrade"])
           ELSE /\ Answer(p, VerifyPaymentResponse(FALSE))
                /\ handler' = Spread(h, [stage |-> "answered"])

\* the two writes of the upgradeUser the handler waits for; after the second
\* the handler answers (part_001 line 141)
VerifyUpgrade(p) ==
    /\ handler.op = "verify" /\ handler.stage = "upgrade"
    /\ \/ UpWriteUsers(p, FALSE) /\ UNCHANGED handler
       \/ /\ UpWritePremium(p, FALSE)
          /\ handler' = Spread(handler, [stage |-> "answered"])

\* ------------------------------------------------------------------- clock
Tick ==
    /\ now < MaxNow
    /\ now' = now + 1
    /\ debitRun' = [d \in Devices |->
                       IF getTodayStr(now + 1) # getTodayStr(now) THEN 0
                       ELSE debitRun[d]]
    /\ UNCHANGED <<users, premium_users, pc, call, result, response, tracking,
                   handler>>

\* ----------------------------------------------------------- specifications
\* the steps of request p; Faults says whether a store access may fail,
\* Reqs which requester identities are supplied
Step(p, Faults, Reqs) ==
  /\ UNCHANGED handler
  /\
    \/ \E deviceId \in DeviceIds, r \in Reqs, fault \in Faults :
            GetStart(p, deviceId, r[1], r[2], fault)
    \/ \E fault \in Faults : GetWrite(p, fault)
    \/ \E deviceId \in Devices, fault \in Faults : Decrement(p, deviceId, fault)
    \/ \E deviceId \in Devices, fault \in Faults : Increment(p, deviceId, fault)
    \/ \E deviceId \in Devices, days \in Durations, pd \in PaymentDetails,
          fault \in Faults : UpStart(p, deviceId, days, pd, fault)
    \/ \E fault \in Faults : UpWriteUsers(p, fault)
    \/ \E fault \in Faults : UpWritePremium(p, fault)

\* requests served one after the other by a store that answers
NextSeq == Tick \/ \E p \in SeqProcs : Step(p, {FALSE}, Requesters)

SpecSeq == Init /\ [][NextSeq]_vars

\* requests interleaving at their awaits
Next == Tick \/ \E p \in ConcProcs : Step(p, {FALSE}, Anonymous)

Spec == Init /\ [][Next]_vars

\* requests served one after the other by a store that may fail
NextFault == Tick \/ \E p \in SeqProcs : Step(p, BOOLEAN, Requesters)

SpecFault == Init /\ [][NextFault]_vars

\* two purchases whose upgradeUser calls interleave at their awaits
NextUp ==
    \/ Tick
    \/ \E p \in UpProcs :
          \/ \E deviceId \in Devices, days \in Durations, pd \in PaymentDetails :
                UpStart(p, deviceId, days, pd, FALSE) /\ UNCHANGED handler
          \/ UpWriteUsers(p, FALSE) /\ UNCHANGED handler
          \/ UpWritePremium(p, FALSE) /\ UNCHANGED handler

SpecUp == Init /\ [][NextUp]_vars

\* HTTP requests served one after the other by the handlers of the server
GenEmails == {"", "b@y.com"}

NextFlow ==
    \/ Tick
    \/ \E p \in SeqProcs :
          \/ \E deviceId \in DeviceIds, email \in GenEmails,
                adRewardToken \in BOOLEAN :
                   GenStart(p, deviceId, email, adRewardToken)
          \/ GenStatusWrite(p)
          \/ GenGate(p)
          \/ \E ok \in BOOLEAN : GenProvider(p, ok)
          \/ GenLedger(p)
          \/ GenFinalStart(p)
          \/ GenAnswer(p)
          \/ \E orderId \in OrderIds, paymentId \in PaymentIds,
                deviceId \in Devices, duration \in Durations,
                email \in OwnerEmails :
                   \E signature \in Signatures(orderId, paymentId) :
                       VerifyStart(p, orderId, paymentId, signature,
                                   deviceId, duration, email)
          \/ VerifyUpgrade(p)

SpecFlow == Init /\ [][NextFlow]_vars

\* as SpecSeq, keeping count of the debits made in a row
InitRun ==
    /\ now = 0
    /\ \E S \in SUBSET Devices : users \in [S -> InitialDocs]
    /\ premium_users = EmptyObj
    /\ pc = [p \in Procs |-> "idle"]
    /\ call = [p \in Procs |-> NoCall]
    /\ result = [p \in Procs |-> EmptyObj]
    /\ response = [p \in Procs |-> EmptyObj]
    /\ debitRun = [d \in Devices |-> 0]
    /\ tracking = TRUE
    /\ handler = NoRequest

SpecRun == InitRun /\ [][NextSeq]_vars

\* ------------------------------------------------------------- properties
\* request p has returned from a call of op
Done(p, op) == pc[p] = "done" /\ call[p].op = op

\* the stored document of the device the finished call of p was about
Stored(p) == Data(users, call[p].deviceId)

\* C1: for a device with no stored record, the first getLimitStatus returns
\* remaining = DAILY_LIMIT, allowed = true, isPremium = false and leaves a
\* stored record with date = today and count = DAILY_LIMIT.
C1_FirstStatus ==
    \A p \in Observed :
        (Done(p, "get") /\ call[p].deviceId # "" /\ ~call[p].existed) =>
            /\ result[p] = [allowed |-> TRUE, remaining |-> DAILY_LIMIT,
                            isPremium |-> FALSE]
            /\ Exists(users, call[p].deviceId)
            /\ Has(Stored(p), "date") /\ Stored(p).date = call[p].today
            /\ Has(Stored(p), "count") /\ Stored(p).count = DAILY_LIMIT

C1_Witness ==
    \E p \in Observed :
        /\ Done(p, "get") /\ call[p].deviceId \in Devices
        /\ ~call[p].existed /\ call[p].wrote

\* C2 (as claimed): after DAILY_LIMIT debits in a row on one day, on a device
\* that was never upgraded, the next getLimitStatus of that day returns
\* allowed = false and remaining = 0.
C2_DebitsExhaust ==
    \A p \in Observed :
        (/\ Done(p, "get") /\ call[p].deviceId \in Devices
         /\ call[p].run = DAILY_LIMIT
         /\ ~Has(call[p].pre, "subscriptionExpiry")) =>
            /\ result[p].allowed = FALSE
            /\ Has(result[p], "remaining") /\ result[p].remaining = 0

\* C3 (as claimed): a debit on a non-premium record whose count is 0 returns
\* a failure result and leaves count at 0.
C3_DebitAtZeroFails ==
    \A p \in Observed :
        (/\ Done(p, "decrement") /\ call[p].existed
         /\ ~ActiveSubscription(call[p].pre, call[p].now)
         /\ Has(call[p].pre, "count") /\ call[p].pre.count = 0) =>
            /\ result[p].value = FALSE
            /\ Stored(p).count = 0

\* C3 (amended): a debit on a non-premium record whose count is 0 leaves the
\* record as it was, count at 0, and returns true: the no-op is reported as
\* success.
C3_DebitAtZeroNoOp ==
    \A p \in Observed :
        (/\ Done(p, "decrement") /\ call[p].existed
         /\ ~ActiveSubscription(call[p].pre, call[p].now)
         /\ Has(call[p].pre, "count") /\ call[p].pre.count = 0) =>
            /\ result[p].value = TRUE
            /\ Stored(p) = call[p].pre
            /\ Stored(p).count = 0

C3_Witness ==
    \E p \in Observed :
        /\ Done(p, "decrement") /\ call[p].existed
        /\ ~ActiveSubscription(call[p].pre, call[p].now)
        /\ Has(call[p].pre, "count") /\ call[p].pre.count = 0
        /\ Has(call[p].pre, "date") /\ call[p].pre.date = getTodayStr(call[p].now)

\* C4 (as claimed): for a non-premium record with a date before today and
\* count = 0, the first getLimitStatus of the day stores count = DAILY_LIMIT
\* with date = today and returns allowed = true, remaining = DAILY_LIMIT.
C4_DayBoundary ==
    \A p \in Observed :
        (/\ Done(p, "get") /\ call[p].existed
         /\ Has(call[p].pre, "date") /\ call[p].pre.date < call[p].today
         /\ Has(call[p].pre, "count") /\ call[p].pre.count = 0
         /\ ~ActiveSubscription(call[p].pre, call[p].at)) =>
            /\ Stored(p).count = DAILY_LIMIT
            /\ Stored(p).date = call[p].today
            /\ result[p].allowed = TRUE
            /\ Has(result[p], "remaining") /\ result[p].remaining = DAILY_LIMIT

\* a finished getLimitStatus that found the record already dated today
ReadOfToday(p) ==
    /\ Done(p, "get") /\ call[p].deviceId \in Devices /\ call[p].existed
    /\ Has(call[p].pre, "date") /\ call[p].pre.date = call[p].today

C5_NoWrite ==
    \A p \in Observed :
        ReadOfToday(p) => (~call[p].wrote /\ Stored(p) = call[p].pre)

C5_SameRemaining ==
    \A p \in Observed :
        (/\ ReadOfToday(p)
         /\ pc'[p] = "done" /\ call'[p].op = "get"
         /\ call'[p].deviceId = call[p].deviceId
         /\ call'[p].userEmail = call[p].userEmail
         /\ call'[p].userPhone = call[p].userPhone
         /\ call'[p].today = call[p].today
         /\ result'[p].isPremium = result[p].isPremium) =>
            /\ users' = users
            /\ Has(result'[p], "remaining") = Has(result[p], "remaining")
            /\ Has(result[p], "remaining") =>
                   result'[p].remaining = result[p].remaining

Max(a, b) == IF a > b THEN a ELSE b

ExtendBase(pre, t) ==
    IF Has(pre, "subscriptionExpiry")
    THEN Max(NewDate(pre.subscriptionExpiry), t) ELSE t

C6_OneUpgrade ==
    \A p \in Observed :
        (Done(p, "upgrade") /\ result[p].value) =>
            /\ Has(Stored(p), "subscriptionExpiry")
            /\ NewDate(Stored(p).subscriptionExpiry) =
                   ExtendBase(call[p].pre, call[p].now)
                   + call[p].days * TicksPerDay

\* the upgrade that returned is followed by another on the same device while
\* the subscription is active: it starts from what the first one stored
C6_NextUpgrade ==
    \A p \in Observed :
        (/\ Done(p, "upgrade") /\ result[p].value
         /\ pc'[p] = "up_users" /\ call'[p].deviceId = call[p].deviceId
         /\ call[p].currentExpiry > now) =>
            call'[p].currentExpiry =
                ExtendBase(call[p].pre, call[p].now)
                + (call[p].days + call'[p].days) * TicksPerDay

\* C6: upgradeUser(device, d) stores E + d days when the stored expiry E is
\* strictly in the future and now + d days when there is none or it has
\* passed; an upgrade that follows on the still active subscription extends
\* by the sum of both durations.
C6_Additive == [](C6_OneUpgrade) /\ [][C6_NextUpgrade]_vars

C6_Witness ==
    \E p \in Observed :
        /\ Done(p, "upgrade") /\ result[p].value
        /\ Has(call[p].pre, "subscriptionExpiry")
        /\ NewDate(call[p].pre.subscriptionExpiry) > call[p].now + 1
        /\ NewDate(Stored(p).subscriptionExpiry) =
               NewDate(call[p].pre.subscriptionExpiry) + call[p].days * TicksPerDay

HasExpiry(coll, d) == Exists(coll, d) /\ Has(coll[d], "subscriptionExpiry")

\* C7 (as claimed): in every execution, concurrent upgrades included, the
\* stored subscriptionExpiry never moves to an earlier instant.
C7_NeverShortens ==
    [][\A d \in Devices :
          (HasExpiry(users, d) /\ HasExpiry(users', d)) =>
              NewDate(users'[d].subscriptionExpiry)
                  >= NewDate(users[d].subscriptionExpiry)]_vars

\* C8: once a device record has subscriptionExpiry set, no step of any call
\* removes it; it stays stored after it has expired.
C8_ExpiryKept ==
    [][\A d \in Devices : HasExpiry(users, d) => HasExpiry(users', d)]_vars

C8_Witness ==
    \E d \in Devices :
        /\ HasExpiry(users, d)
        /\ NewDate(users[d].subscriptionExpiry) <= now
        /\ Has(users[d], "date")
        /\ users[d].date > getTodayStr(NewDate(users[d].subscriptionExpiry) - 1)
        /\ Has(users[d], "count") /\ users[d].count < DAILY_LIMIT

\* the record as it would be had it never been upgraded
NeverUpgraded(doc) == Delete(Delete(doc, "subscriptionExpiry"), "isPremium")

\* lines 42-122 run without interruption on the stored document doc
StatusOf(doc, today, userEmail, userPhone, t) ==
    IF NeedsReset(doc, today)
    THEN Evaluate(ResetUserData(doc, today), userEmail, userPhone, t)
    ELSE Evaluate(doc, userEmail, userPhone, t)

\* C9 (as claimed): getLimitStatus on a record whose subscriptionExpiry has
\* passed returns what it returns on the same record never upgraded, and
\* stores the same count.
C9_ExpiredAsNeverUpgraded ==
    \A p \in Observed :
        (/\ Done(p, "get") /\ call[p].existed
         /\ Has(call[p].pre, "date") /\ Has(call[p].pre, "count")
         /\ Has(call[p].pre, "subscriptionExpiry")
         /\ NewDate(call[p].pre.subscriptionExpiry) <= call[p].at) =>
            /\ result[p] = StatusOf(NeverUpgraded(call[p].pre), call[p].today,
                                    call[p].userEmail, call[p].userPhone,
                                    call[p].at)
            /\ Has(Stored(p), "count")
            /\ Stored(p).count =
                   (IF NeedsReset(call[p].pre, call[p].today)
                    THEN DAILY_LIMIT ELSE call[p].pre.count)

\* C10 (as claimed): on a record with an active subscription and an owner
\* email but no owner phone, a requester whose email differs or is missing
\* gets isPremium = false, allowed = (count > 0), remaining = count, and the
\* stored subscription is untouched; a requester whose email is equal up to
\* letter case gets isPremium = true.
C10_OwnershipGate ==
    \A p \in Observed :
        (/\ Done(p, "get") /\ call[p].existed
         /\ Has(call[p].pre, "date") /\ Has(call[p].pre, "count")
         /\ ActiveSubscription(call[p].pre, call[p].at)
         /\ Has(call[p].pre, "email") /\ ~Has(call[p].pre, "phone")) =>
            IF /\ call[p].userEmail # ""
               /\ toLowerCase(call[p].userEmail) = toLowerCase(call[p].pre.email)
            THEN result[p].isPremium = TRUE
            ELSE /\ result[p].isPremium = FALSE
                 /\ Has(Stored(p), "count") /\ Has(result[p], "remaining")
                 /\ result[p].remaining = Stored(p).count
                 /\ result[p].allowed = (Stored(p).count > 0)
                 /\ Stored(p).subscriptionExpiry = call[p].pre.subscriptionExpiry

\* the owner identity the last completed upgrade of device d was paid with
PaidBy(d) == Data(premium_users, d)

\* C11 (as claimed): an upgradeUser whose payment metadata carries an email
\* stores it on the users document, so that a later getLimitStatus of a
\* requester with another (or no) email, on the active subscription, returns
\* isPremium = false.
C11_OwnerStored ==
    \A p \in Observed :
        /\ (/\ Done(p, "upgrade") /\ result[p].value
            /\ Has(call[p].paymentDetails, "email")) =>
               /\ Has(Stored(p), "email")
               /\ Stored(p).email = call[p].paymentDetails.email
        /\ (/\ Done(p, "get") /\ call[p].existed
            /\ ActiveSubscription(call[p].pre, call[p].at)
            /\ Has(PaidBy(call[p].deviceId), "email")
            /\ PaidBy(call[p].deviceId).email # "null"
            /\ call[p].userPhone = <<>>
            /\ toLowerCase(call[p].userEmail)
                   # toLowerCase(PaidBy(call[p].deviceId).email)) =>
               result[p].isPremium = FALSE

\* what the claim calls a requester matching an owner hint of the record
RequesterMatches(doc, userEmail, userPhone) ==
    \/ /\ Has(doc, "email") /\ userEmail # ""
       /\ toLowerCase(userEmail) = toLowerCase(doc.email)
    \/ /\ Has(doc, "phone") /\ userPhone # <<>>
       /\ (includes(userPhone, doc.phone) \/ includes(doc.phone, userPhone))

PremiumApplies(doc, userEmail, userPhone, t) ==
    /\ Has(doc, "subscriptionExpiry")
    /\ NewDate(doc.subscriptionExpiry) > t
    /\ \/ ~(Has(doc, "email") \/ Has(doc, "phone"))
       \/ RequesterMatches(doc, userEmail, userPhone)

\* C12: getLimitStatus returns allowed = true, remaining = 9999,
\* isPremium = true and expiryDate = the stored subscriptionExpiry exactly
\* when that expiry is strictly later than now and the record has no owner
\* hint or the requester matches one; otherwise, in particular from the
\* instant of expiry on and whatever the stored isPremium flag, the result
\* is not premium.
C12_PremiumExactly ==
    \A p \in Observed :
        (Done(p, "get") /\ call[p].deviceId \in Devices) =>
            IF PremiumApplies(call[p].pre, call[p].userEmail,
                              call[p].userPhone, call[p].at)
            THEN result[p] = [allowed |-> TRUE, remaining |-> UNLIMITED,
                              isPremium |-> TRUE,
                              expiryDate |-> call[p].pre.subscriptionExpiry]
            ELSE result[p].isPremium = FALSE /\ ~Has(result[p], "expiryDate")

C12_Witness ==
    \E p \in Observed :
        /\ Done(p, "get") /\ call[p].existed
        /\ Has(call[p].pre, "isPremium") /\ call[p].pre.isPremium
        /\ NewDate(call[p].pre.subscriptionExpiry) = call[p].at
        /\ result[p].isPremium = FALSE

\* a call with an empty device id never waits for the store
C13_NoStoreAccess ==
    \A p \in Observed :
        pc'[p] \in {"get_write", "up_users", "up_premium"} =>
            call'[p].deviceId # ""

C13_Rejected ==
    /\ ~Exists(users, "")
    /\ \A p \in Observed :
          (Done(p, "get") /\ call[p].deviceId = "") =>
              /\ result[p].allowed = FALSE /\ result[p].remaining = 0
              /\ Has(result[p], "error") /\ result[p].error = "No Device ID"
              /\ ~call[p].wrote

\* C13: getLimitStatus with an empty deviceId returns allowed = false,
\* remaining = 0 and the error "No Device ID"; the call returns without
\* touching the store and no record is created under the empty id.
C13_NoDeviceId ==
    /\ [](C13_Rejected)
    /\ [][C13_NoStoreAccess /\
           (\A p \in Observed :
               (call'[p] # call[p] /\ call'[p].op = "get"
                /\ call'[p].deviceId = "") => users' = users)]_vars

C13_Witness ==
    \E p \in Observed :
        /\ Done(p, "get") /\ call[p].deviceId = ""
        /\ call[p].userEmail # ""
        /\ users # EmptyObj

\* the finished call of p met a failing store access
Faulted(p) == pc[p] = "done" /\ call[p].fault

\* C14: a storage fault during getLimitStatus gives allowed = false,
\* remaining = 0 with an error indicator and never isPremium = true; a
\* storage fault during decrementLimit, incrementLimit or upgradeUser gives
\* the failure result (false, success: false), the call returning normally.
C14_FailSafe ==
    \A p \in Observed :
        Faulted(p) =>
            /\ call[p].op = "get" =>
                  /\ result[p].allowed = FALSE /\ result[p].remaining = 0
                  /\ Has(result[p], "error")
                  /\ ~(Has(result[p], "isPremium") /\ result[p].isPremium)
            /\ call[p].op \in {"decrement", "upgrade"} =>
                  result[p] = [value |-> FALSE]
            /\ call[p].op = "increment" => result[p] = [success |-> FALSE]

C14_Witness ==
    \E p \in Observed :
        /\ Faulted(p) /\ call[p].op = "get"
        /\ ActiveSubscription(call[p].pre, call[p].at)
        /\ ~hasOwnerInfo(call[p].pre)
        /\ result[p].allowed = FALSE

\* C15 (as claimed): whenever upgradeUser returned a failure result inside
\* the verify-payment flow, the response of the flow does not say
\* success = true.
C15_NoSilentFailure ==
    \A p \in Observed :
        (Done(p, "upgrade") /\ result[p].value = FALSE) =>
            ~(Has(response[p], "success") /\ response[p].success = TRUE)

\* the count a document holds, a missing field counting as 0
CountOf(doc) == IF Has(doc, "count") THEN doc.count ELSE 0

\* C16: incrementLimit on an existing record raises the stored count by
\* exactly 1 whatever its value, above DAILY_LIMIT too, changes nothing else
\* and returns success; on a device with no record it returns a failure
\* result and creates no record.
C16_Credit ==
    \A p \in Observed :
        Done(p, "increment") =>
            IF call[p].existed
            THEN /\ result[p] = [success |-> TRUE]
                 /\ Has(Stored(p), "count")
                 /\ Stored(p).count = CountOf(call[p].pre) + 1
                 /\ Delete(Stored(p), "count") = Delete(call[p].pre, "count")
            ELSE /\ result[p] = [success |-> FALSE]
                 /\ ~Exists(users, call[p].deviceId)

C16_Witness ==
    \E p \in Observed :
        /\ Done(p, "increment") /\ call[p].existed
        /\ CountOf(call[p].pre) = DAILY_LIMIT
        /\ Stored(p).count = DAILY_LIMIT + 1

\* C17: in every reachable state, under any interleaving of getLimitStatus,
\* decrementLimit, incrementLimit and upgradeUser calls, a stored count is
\* never negative.
C17_CountNonNegative ==
    \A d \in Devices :
        (Exists(users, d) /\ Has(users[d], "count")) => users[d].count >= 0

C17_Witness ==
    \E d \in Devices :
        /\ Exists(users, d) /\ Has(users[d], "count") /\ users[d].count = 0
        /\ \E p \in ConcProcs : pc[p] # "idle"

\* a getLimitStatus finishes its reset write in this step
ResetStep == \E p \in Procs : pc[p] = "get_write" /\ pc'[p] # "get_write"

C19_PremiumDebitNoOp ==
    \A p \in Observed :
        (/\ Done(p, "decrement") /\ call[p].existed
         /\ ActiveSubscription(call[p].pre, call[p].now)) =>
            /\ result[p] = [value |-> TRUE]
            /\ Stored(p) = call[p].pre

C19_Witness ==
    \E p \in Observed :
        /\ Done(p, "decrement") /\ call[p].existed
        /\ ActiveSubscription(call[p].pre, call[p].now)
        /\ hasOwnerInfo(call[p].pre)
        /\ Has(call[p].pre, "count") /\ call[p].pre.count > 0

\* C20 (as claimed): decrementLimit on a device with no record, or on a
\* non-premium record whose date is before today, leaves a record with
\* date = today and count = DAILY_LIMIT - 1.
C20_DebitResets ==
    \A p \in Observed :
        (/\ Done(p, "decrement")
         /\ ~ActiveSubscription(call[p].pre, call[p].now)
         /\ \/ ~call[p].existed
            \/ /\ Has(call[p].pre, "date") /\ Has(call[p].pre, "count")
               /\ call[p].pre.date < getTodayStr(call[p].now)) =>
            /\ Exists(users, call[p].deviceId)
            /\ Stored(p).date = getTodayStr(call[p].now)
            /\ Stored(p).count = DAILY_LIMIT - 1

\* C23 (as claimed): once a reset for today is stored for a device, no later
\* write of a getLimitStatus changes the stored count of that day back to
\* DAILY_LIMIT, whatever calls interleave.
C23_ResetOncePerDay ==
    [][\A d \in Devices :
          (/\ ResetStep
           /\ Exists(users, d) /\ Has(users[d], "count")
           /\ Has(users[d], "date") /\ users[d].date = getTodayStr(now)) =>
              /\ Exists(users', d) /\ Has(users'[d], "count")
              /\ users'[d].count = users[d].count]_vars

\* the subscription fields of a document
Subscription(doc) ==
    [f \in (DOMAIN doc) \cap {"subscriptionExpiry", "isPremium"} |-> doc[f]]

\* C25 (as claimed): an upgradeUser that returns a failure result leaves
\* subscriptionExpiry and isPremium of the device record as they were before
\* the call, and one that returns success leaves the same new expiry on the
\* device record and on the premium_users entry.
C25_AllOrNothing ==
    \A p \in Observed :
        Done(p, "upgrade") =>
            IF result[p].value
            THEN /\ HasExpiry(users, call[p].deviceId)
                 /\ HasExpiry(premium_users, call[p].deviceId)
                 /\ Stored(p).subscriptionExpiry
                        = premium_users[call[p].deviceId].subscriptionExpiry
                 /\ Stored(p).subscriptionExpiry
                        = toISOString(call[p].currentExpiry)
            ELSE Subscription(Stored(p)) = Subscription(call[p].pre)

\* C28 (as claimed): every non-error result of getLimitStatus carries an
\* integer remaining >= 0, has allowed true exactly when it is premium or
\* remaining > 0 and, when it is not premium, a remaining equal to the count
\* stored for the device when the call returns (shown on the devices without
\* record and the records that carry a date and a count).
C28_WellFormed ==
    \A p \in Observed :
        (/\ Done(p, "get") /\ ~Has(result[p], "error")
         /\ call[p].existed =>
                (Has(call[p].pre, "date") /\ Has(call[p].pre, "count"))) =>
            /\ Has(result[p], "remaining")
            /\ result[p].remaining \in Nat
            /\ result[p].allowed
                   <=> (result[p].isPremium \/ result[p].remaining > 0)
            /\ ~result[p].isPremium =>
                   /\ Has(Stored(p), "count")
                   /\ result[p].remaining = Stored(p).count

\* C26 (as claimed): a non-owner on a premium device is metered: the
\* decrementLimit that follows a getLimitStatus which withheld the active
\* subscription and allowed the request takes one unit from the stored
\* count, so that the count is used up after as many debits.
C26_NonOwnerMetered ==
    \A p \in Observed :
        (/\ Done(p, "decrement") /\ call[p].withheld
         /\ Has(call[p].pre, "count") /\ call[p].pre.count > 0) =>
            Stored(p).count = call[p].pre.count - 1

Min(a, b) == IF a <= b THEN a ELSE b

\* the expiry instant a document carries, 0 when it carries none
ExpiryOf(doc) ==
    IF Has(doc, "subscriptionExpiry") THEN NewDate(doc.subscriptionExpiry) ELSE 0

\* C24 (as claimed): after two upgradeUser calls of the same device that both
\* returned success, run one after the other or concurrently, the stored
\* subscriptionExpiry is at least max(E, start) plus both durations, E being
\* the expiry before the two calls and start the instant the first began.
C24_BothCredited ==
    \A p, q \in UpProcs :
        (/\ p # q
         /\ Done(p, "upgrade") /\ result[p].value
         /\ Done(q, "upgrade") /\ result[q].value
         /\ call[p].deviceId = call[q].deviceId) =>
            /\ HasExpiry(users, call[p].deviceId)
            /\ ExpiryOf(Stored(p))
                  >= AddDays(Max(Min(ExpiryOf(call[p].pre), ExpiryOf(call[q].pre)),
                                 Min(call[p].now, call[q].now)),
                             call[p].days + call[q].days)

\* the generate request being served carries no ad-reward token
Unrewarded == handler.op = "generate" /\ ~handler.adRewardToken

\* C21 (as claimed): a successful generation for a metered device without
\* ad-reward token takes exactly one unit from the stored count after the
\* provider call succeeded, so that the count is used up after as many
\* generations and the next request of the day is answered 403.
C21_GenerationDebits ==
    \A p \in SeqProcs :
        (/\ Unrewarded /\ handler.stage = "updated"
         /\ handler.provider = "ok"
         /\ ~ActiveSubscription(handler.stored, now)) =>
            /\ Has(Data(users, handler.deviceId), "count")
            /\ Data(users, handler.deviceId).count
                  = CountOf(handler.stored) - 1

\* C22: a generate request without ad-reward token whose getLimitStatus
\* returned allowed = false is answered 403 without a call of the provider
\* or of a ledger mutation, and one whose provider call failed leaves the
\* stored record, its count included, as it was.
C22_RejectedUntouched ==
    \A p \in SeqProcs :
        /\ (Unrewarded /\ Has(handler, "allowed") /\ ~handler.allowed) =>
              /\ handler.stage = "answered"
              /\ response[p] = [status |-> 403, error |-> "Daily limit reached",
                                upgrade |-> TRUE]
              /\ handler.provider = "none"
              /\ handler.mutations = 0
              /\ Data(users, handler.deviceId) = handler.stored
        /\ (Unrewarded /\ handler.provider = "failed") =>
              /\ handler.mutations = 0
              /\ Data(users, handler.deviceId) = handler.stored
              /\ response[p].status # 200

C22_Witness ==
    \E p \in SeqProcs :
        /\ Unrewarded /\ Has(handler, "allowed") /\ ~handler.allowed
        /\ handler.stage = "answered"
        /\ response[p].status = 403
        /\ Exists(users, handler.deviceId)

\* C27 (as claimed): the verify-payment flow invokes upgradeUser only for a
\* request whose signature equals the HMAC-SHA256 of orderId|paymentId under
\* the key secret, for every orderId.
C27_VerifiedOnly ==
    (handler.op = "verify" /\ handler.stage = "upgrade") =>
        handler.signature
            = Hmac(<<handler.orderId[1], handler.orderId[2], "|",
                     handler.paymentId>>)

====
